---- MODULE Spec2Model ----
(***************************************************************************)
(* The composable VGG and Xception builders of zoo/vgg/vgg_c.py and        *)
(* zoo/xception/xception_c.py.                                             *)
(*                                                                         *)
(* A builder threads a tensor through layer constructors.  The graph under *)
(* construction is the sequence of the layers created so far; a tensor is  *)
(* the index of the layer that produced it.  A layer whose call is         *)
(* rejected (kernel larger than an unpadded input, operands of a merge     *)
(* that cannot be broadcast) is logged with the empty shape and aborts the *)
(* construction: nothing after it runs.                                    *)
(***************************************************************************)
EXTENDS Integers, Sequences, FiniteSets, TLC

\* ---------------------------------------------------------------- bounds
\* Largest small input height/width tried for the Xception constructor.
MaxSize == 12
\* Longest width list passed to entryFlow / middleFlow directly.
MaxBlocks == 2

\* The program's objects: two names a caller binds results to.
Objs == {"a", "b"}

\* ------------------------------------------------------ program constants
StemFilters == 64
DenseUnits == 4096
DefaultClasses == 1000
VGGDefaultSize == 224
XceptionDefaultSize == 229

VGGDefaultShape == <<VGGDefaultSize, VGGDefaultSize, 3>>
XceptionDefaultShape == <<XceptionDefaultSize, XceptionDefaultSize, 3>>

InvalidLayers == "VGG: Invalid value for n_layers"
FrameworkError == "ValueError"

\* ------------------------------------------------------------ inputs tried
Selectors == {11, 16, 19}
ClassCounts == {10, DefaultClasses}
VGGShapes == {VGGDefaultShape, <<32, 32, 3>>, <<16, 16, 3>>}
\* From 6 (too small for the stem) up; heights and widths differ by at most one.
XceptionShapes ==
    UNION {{<<h, h, 3>>, <<h, h + 1, 3>>} : h \in {6} \cup (10..MaxSize)}
        \cup {XceptionDefaultShape}
Widths == {128, 728}
WidthLists == UNION {[1..n -> Widths] : n \in 0..MaxBlocks}
EntryShapes == {<<6, 6, 3>>, <<13, 16, 3>>}
MiddleShapes == {<<3, 4, c>> : c \in Widths}
ExitShapes == {<<1, 1, 728>>, <<3, 4, 728>>, <<4, 4, 128>>}

\* ------------------------------------------------------------------ models
None == [tag |-> "None", src |-> "", inputs |-> 0, outputs |-> 0]
Model(inputs, outputs) ==
    [tag |-> "Model", src |-> "built", inputs |-> inputs, outputs |-> outputs]
\* Models a caller may hand to the model setter.
OtherModels == {[tag |-> "Model", src |-> "other", inputs |-> 0, outputs |-> 0]}

\* --------------------------------------------------------------- framework
\* Output length of a convolution or pooling window along one axis; 0 when
\* the unpadded window does not fit.
OutLen(n, k, s, padding) ==
    IF padding = "same" THEN (n + s - 1) \div s
    ELSE IF n < k THEN 0 ELSE ((n - k) \div s) + 1

Window(shape, filters, k, s, padding) ==
    LET h == OutLen(shape[1], k, s, padding)
        w == OutLen(shape[2], k, s, padding)
    IN IF Len(shape) # 3 \/ h < 1 \/ w < 1 THEN <<>> ELSE <<h, w, filters>>

\* Shape of an elementwise merge: per axis the operands agree or one is 1.
Broadcast(a, b) ==
    IF Len(a) # Len(b) \/ a = <<>> THEN <<>>
    ELSE IF \E i \in 1..Len(a) : a[i] # b[i] /\ a[i] # 1 /\ b[i] # 1 THEN <<>>
    ELSE [i \in 1..Len(a) |-> IF a[i] = 1 THEN b[i] ELSE a[i]]

\* The graph before anything is built.
NoGraph == [nodes |-> <<>>, ok |-> TRUE, x |-> 0]

\* Create a layer and call it on the tensors `ins`; the result is tensor x.
Layer(g, kind, filters, kernel, strides, padding, activation, ins, shape) ==
    IF ~g.ok THEN g
    ELSE [nodes |-> Append(g.nodes,
                       [kind |-> kind, filters |-> filters, kernel |-> kernel,
                        strides |-> strides, padding |-> padding,
                        activation |-> activation, inputs |-> ins,
                        shape |-> shape]),
          ok |-> shape # <<>>,
          x |-> Len(g.nodes) + 1]

\* The shape of the tensor the next layer is called on.
Shape(g) == g.nodes[g.x].shape

\* The graph with tensor t as the one the next layer is called on.
At(g, t) == [g EXCEPT !.x = t]

Input(g, shape) == Layer(g, "Input", 0, 0, 0, "", "", <<>>, shape)

Conv2D(g, filters, kernel, strides, padding, activation) ==
    IF ~g.ok THEN g
    ELSE Layer(g, "Conv2D", filters, kernel, strides, padding, activation, <<g.x>>,
               Window(Shape(g), filters, kernel, strides, padding))

SeparableConv2D(g, filters, kernel, padding) ==
    IF ~g.ok THEN g
    ELSE Layer(g, "SeparableConv2D", filters, kernel, 1, padding, "", <<g.x>>,
               Window(Shape(g), filters, kernel, 1, padding))

MaxPooling2D(g, pool, strides, padding) ==
    IF ~g.ok THEN g
    ELSE Layer(g, "MaxPooling2D", 0, pool, strides, padding, "", <<g.x>>,
               IF Len(Shape(g)) # 3 THEN <<>>
               ELSE Window(Shape(g), Shape(g)[3], pool, strides, padding))

BatchNormalization(g) ==
    IF ~g.ok THEN g
    ELSE Layer(g, "BatchNormalization", 0, 0, 0, "", "", <<g.x>>, Shape(g))

ReLU(g) ==
    IF ~g.ok THEN g
    ELSE Layer(g, "ReLU", 0, 0, 0, "", "relu", <<g.x>>, Shape(g))

Flatten(g) ==
    IF ~g.ok THEN g
    ELSE Layer(g, "Flatten", 0, 0, 0, "", "", <<g.x>>,
               IF Len(Shape(g)) # 3 THEN <<>>
               ELSE <<Shape(g)[1] * Shape(g)[2] * Shape(g)[3]>>)

Dense(g, units, activation) ==
    IF ~g.ok THEN g
    ELSE Layer(g, "Dense", units, 0, 0, "", activation, <<g.x>>,
               IF Len(Shape(g)) # 1 THEN <<>> ELSE <<units>>)

GlobalAveragePooling2D(g) ==
    IF ~g.ok THEN g
    ELSE Layer(g, "GlobalAveragePooling2D", 0, 0, 0, "", "", <<g.x>>,
               IF Len(Shape(g)) # 3 THEN <<>> ELSE <<Shape(g)[3]>>)

\* Add()([x, shortcut]), x the current tensor.
Add(g, shortcut) ==
    IF ~g.ok THEN g
    ELSE Layer(g, "Add", 0, 0, 0, "", "", <<g.x, shortcut>>,
               Broadcast(Shape(g), g.nodes[shortcut].shape))

\* ------------------------------------------------------------------- state
\* groups    : the class attribute VGG.groups
\* cls_model : the class attribute _model of each builder class
\* objs      : what each name is bound to: a builder instance, or the graph a
\*             direct call of a static flow method returned
VARIABLES groups, cls_model, objs

vars == <<groups, cls_model, objs>>

\* A name bound to nothing yet.  n_layers .. blocks are the arguments of the
\* call that bound it, nodes the layers the call created, exc the exception it
\* raised, has_model/_model the instance attribute _model, assigned the last
\* value handed to the model setter.
Unbound ==
    [cls |-> "", n_layers |-> 0, input_shape |-> <<>>, n_classes |-> 0,
     blocks |-> <<>>, nodes |-> <<>>, exc |-> "", has_model |-> FALSE,
     _model |-> None, assigned |-> None]

\* --------------------------------------------------------------------- VGG
\* The class-level table of groups: (number of layers, filters) per group.
VGG_groups ==
    [n \in {16, 19} |->
        IF n = 16 THEN << <<1, 64>>, <<2, 128>>, <<3, 256>>, <<3, 512>>, <<3, 512>> >>
        ELSE << <<1, 64>>, <<2, 128>>, <<4, 256>>, <<4, 256>>, <<4, 256>> >>]

VGG_stem(g, inputs) == Conv2D(At(g, inputs), StemFilters, 3, 1, "same", "relu")

RECURSIVE group_convs(_, _, _)
group_convs(g, n_layers, n_filters) ==
    IF ~g.ok \/ n_layers = 0 THEN g
    ELSE group_convs(Conv2D(g, n_filters, 3, 1, "same", "relu"),
                     n_layers - 1, n_filters)

\* group with one convolution too many (range(n_layers + 1)).
group_extra_conv(g, n_layers, n_filters) ==
    MaxPooling2D(group_convs(g, n_layers + 1, n_filters), 2, 2, "valid")

group(g, n_layers, n_filters) ==
    MaxPooling2D(group_convs(g, n_layers, n_filters), 2, 2, "valid")

RECURSIVE learner(_, _)
learner(g, blocks) ==
    IF ~g.ok \/ Len(blocks) = 0 THEN g
    ELSE learner(group(g, Head(blocks)[1], Head(blocks)[2]), Tail(blocks))

\* classifier with the output width fixed instead of taken from n_classes.
VGG_classifier_fixed(g, n_classes) ==
    LET f  == Flatten(g)
        d1 == Dense(f, DenseUnits, "relu")
        d2 == Dense(d1, DenseUnits, "relu")
    IN Dense(d2, DefaultClasses, "softmax")

VGG_classifier(g, n_classes) ==
    LET f  == Flatten(g)
        d1 == Dense(f, DenseUnits, "relu")
        d2 == Dense(d1, DenseUnits, "relu")
    IN Dense(d2, n_classes, "softmax")

\* __init__ with the selector checked only after the input is created.
VGG_init_late_check(self, n_layers, input_shape, n_classes) ==
    LET inputs  == Input(NoGraph, input_shape)
        x       == VGG_stem(inputs, inputs.x)
        l       == learner(x, groups[n_layers])
        outputs == VGG_classifier(l, n_classes)
    IN IF n_layers \notin {16, 19}
       THEN [self EXCEPT !.nodes = inputs.nodes, !.exc = InvalidLayers]
       ELSE IF outputs.ok
       THEN [self EXCEPT !.nodes = outputs.nodes, !.has_model = TRUE,
                         !._model = Model(inputs.x, outputs.x)]
       ELSE [self EXCEPT !.nodes = outputs.nodes, !.exc = FrameworkError]

\* VGG.__init__ on the fresh instance `self`.
VGG_init(self, n_layers, input_shape, n_classes) ==
    IF n_layers \notin {16, 19} THEN [self EXCEPT !.exc = InvalidLayers]
    ELSE LET inputs  == Input(NoGraph, input_shape)
             x       == VGG_stem(inputs, inputs.x)
             l       == learner(x, groups[n_layers])
             outputs == VGG_classifier(l, n_classes)
         IN IF outputs.ok
            THEN [self EXCEPT !.nodes = outputs.nodes, !.has_model = TRUE,
                              !._model = Model(inputs.x, outputs.x)]
            ELSE [self EXCEPT !.nodes = outputs.nodes, !.exc = FrameworkError]

\* Attribute lookup self._model: the instance's own, else the class's.
GetModel(self) == IF self.has_model THEN self._model ELSE cls_model[self.cls]

VGG_model_setter(self, m) == [self EXCEPT !.has_model = TRUE, !._model = m]

\* ---------------------------------------------------------------- Xception
Xception_stem(g, inputs) ==
    LET c1 == Conv2D(At(g, inputs), 32, 3, 2, "valid", "")
        b1 == BatchNormalization(c1)
        r1 == ReLU(b1)
        c2 == Conv2D(r1, 64, 3, 1, "valid", "")
        b2 == BatchNormalization(c2)
    IN ReLU(b2)

\* projection_block with the pooling left unpadded.
projection_block_valid_pool(g, x, n_filters) ==
    LET s1 == Conv2D(At(g, x), n_filters, 1, 2, "same", "")
        shortcut == BatchNormalization(s1)
        c1 == SeparableConv2D(At(shortcut, x), n_filters, 3, "same")
        b1 == BatchNormalization(c1)
        r1 == ReLU(b1)
        c2 == SeparableConv2D(r1, n_filters, 3, "same")
        b2 == BatchNormalization(c2)
        r2 == ReLU(b2)
        p  == MaxPooling2D(r2, 3, 2, "valid")
    IN Add(p, shortcut.x)

projection_block(g, x, n_filters) ==
    LET s1 == Conv2D(At(g, x), n_filters, 1, 2, "same", "")
        shortcut == BatchNormalization(s1)
        c1 == SeparableConv2D(At(shortcut, x), n_filters, 3, "same")
        b1 == BatchNormalization(c1)
        r1 == ReLU(b1)
        c2 == SeparableConv2D(r1, n_filters, 3, "same")
        b2 == BatchNormalization(c2)
        r2 == ReLU(b2)
        p  == MaxPooling2D(r2, 3, 2, "same")
    IN Add(p, shortcut.x)

residual_block(g, x, n_filters) ==
    LET c1 == SeparableConv2D(At(g, x), n_filters, 3, "same")
        b1 == BatchNormalization(c1)
        r1 == ReLU(b1)
        c2 == SeparableConv2D(r1, n_filters, 3, "same")
        b2 == BatchNormalization(c2)
        r2 == ReLU(b2)
        c3 == SeparableConv2D(r2, n_filters, 3, "same")
        b3 == BatchNormalization(c3)
        r3 == ReLU(b3)
    IN Add(r3, x)

\* The entry loop dropping the last entry of the list.
RECURSIVE entry_blocks_short(_, _)
entry_blocks_short(g, blocks) ==
    IF ~g.ok \/ Len(blocks) <= 1 THEN g
    ELSE entry_blocks_short(projection_block(g, g.x, Head(blocks)), Tail(blocks))

RECURSIVE entry_blocks(_, _)
entry_blocks(g, blocks) ==
    IF ~g.ok \/ Len(blocks) = 0 THEN g
    ELSE entry_blocks(projection_block(g, g.x, Head(blocks)), Tail(blocks))

entryFlow(g, inputs, blocks) == entry_blocks(Xception_stem(g, inputs), blocks)

RECURSIVE middleFlow(_, _, _)
middleFlow(g, x, blocks) ==
    IF ~g.ok \/ Len(blocks) = 0 THEN At(g, x)
    ELSE LET b == residual_block(g, x, Head(blocks))
         IN middleFlow(b, b.x, Tail(blocks))

Xception_classifier(g, x, n_classes) ==
    Dense(GlobalAveragePooling2D(At(g, x)), n_classes, "softmax")

\* exitFlow with all four separable convolutions ahead of the merge.
exitFlow_merge_last(g, x, n_classes) ==
    LET s1 == Conv2D(At(g, x), 2048, 1, 2, "same", "")
        shortcut == BatchNormalization(s1)
        c1 == SeparableConv2D(At(shortcut, x), 728, 3, "same")
        b1 == BatchNormalization(c1)
        c2 == SeparableConv2D(b1, 1024, 3, "same")
        b2 == BatchNormalization(c2)
        r2 == ReLU(b2)
        c3 == SeparableConv2D(r2, 1556, 3, "same")
        b3 == BatchNormalization(c3)
        r3 == ReLU(b3)
        c4 == SeparableConv2D(r3, 2048, 3, "same")
        b4 == BatchNormalization(c4)
        r4 == ReLU(b4)
        p  == MaxPooling2D(r4, 3, 2, "same")
        a  == Add(p, shortcut.x)
    IN Xception_classifier(a, a.x, n_classes)

\* exitFlow with the shortcut convolution left at stride 1.
exitFlow_unstrided(g, x, n_classes) ==
    LET s1 == Conv2D(At(g, x), 1024, 1, 1, "same", "")
        shortcut == BatchNormalization(s1)
        c1 == SeparableConv2D(At(shortcut, x), 728, 3, "same")
        b1 == BatchNormalization(c1)
        c2 == SeparableConv2D(b1, 1024, 3, "same")
        b2 == BatchNormalization(c2)
        r2 == ReLU(b2)
        p  == MaxPooling2D(r2, 3, 2, "same")
        a  == Add(p, shortcut.x)
        c3 == SeparableConv2D(a, 1556, 3, "same")
        b3 == BatchNormalization(c3)
        r3 == ReLU(b3)
        c4 == SeparableConv2D(r3, 2048, 3, "same")
        b4 == BatchNormalization(c4)
        r4 == ReLU(b4)
    IN Xception_classifier(r4, r4.x, n_classes)

exitFlow(g, x, n_classes) ==
    LET s1 == Conv2D(At(g, x), 1024, 1, 2, "same", "")
        shortcut == BatchNormalization(s1)
        c1 == SeparableConv2D(At(shortcut, x), 728, 3, "same")
        b1 == BatchNormalization(c1)
        c2 == SeparableConv2D(b1, 1024, 3, "same")
        b2 == BatchNormalization(c2)
        r2 == ReLU(b2)
        p  == MaxPooling2D(r2, 3, 2, "same")
        a  == Add(p, shortcut.x)
        c3 == SeparableConv2D(a, 1556, 3, "same")
        b3 == BatchNormalization(c3)
        r3 == ReLU(b3)
        c4 == SeparableConv2D(r3, 2048, 3, "same")
        b4 == BatchNormalization(c4)
        r4 == ReLU(b4)
    IN Xception_classifier(r4, r4.x, n_classes)

EntryWidths == <<128, 256, 728>>
MiddleWidths == <<728, 728, 728, 728, 728, 728, 728, 728>>

\* Xception.__init__ on the fresh instance `self`.
Xception_init(self, input_shape, n_classes) ==
    LET inputs  == Input(NoGraph, input_shape)
        e       == entryFlow(inputs, inputs.x, EntryWidths)
        m       == middleFlow(e, e.x, MiddleWidths)
        outputs == exitFlow(m, m.x, n_classes)
    IN IF ~e.ok THEN [self EXCEPT !.nodes = e.nodes, !.exc = FrameworkError]
       ELSE IF ~m.ok THEN [self EXCEPT !.nodes = m.nodes, !.exc = FrameworkError]
       ELSE IF ~outputs.ok
       THEN [self EXCEPT !.nodes = outputs.nodes, !.exc = FrameworkError]
       ELSE [self EXCEPT !.nodes = outputs.nodes, !.has_model = TRUE,
                         !._model = Model(inputs.x, outputs.x)]

\* The setter only reads the attribute; its result is dropped.
Xception_model_setter(self, m) == self

\* The graph a direct call of a static flow method leaves behind.
Called(cls, shape, n_classes, blocks, g) ==
    [Unbound EXCEPT !.cls = cls, !.input_shape = shape, !.n_classes = n_classes,
                    !.blocks = blocks, !.nodes = g.nodes,
                    !.exc = IF g.ok THEN "" ELSE FrameworkError]

\* ----------------------------------------------------------------- actions
Init ==
    /\ groups = VGG_groups
    /\ cls_model = [c \in {"VGG", "Xception"} |-> None]
    /\ objs = [o \in Objs |-> Unbound]

\* The constructor storing the model on the class instead of the instance.
NewVGG_on_class(o, n_layers, input_shape, n_classes) ==
    LET self == VGG_init([Unbound EXCEPT !.cls = "VGG", !.n_layers = n_layers,
                                         !.input_shape = input_shape,
                                         !.n_classes = n_classes],
                         n_layers, input_shape, n_classes)
    IN /\ objs[o].cls = ""
       /\ objs' = [objs EXCEPT ![o] =
                    [self EXCEPT !.has_model = FALSE, !._model = None]]
       /\ cls_model' = [cls_model EXCEPT !["VGG"] =
                         IF self.has_model THEN self._model ELSE @]
       /\ UNCHANGED groups

\* o = VGG(n_layers, input_shape, n_classes)
NewVGG(o, n_layers, input_shape, n_classes) ==
    /\ objs[o].cls = ""
    /\ objs' = [objs EXCEPT ![o] =
                 VGG_init([Unbound EXCEPT !.cls = "VGG", !.n_layers = n_layers,
                                          !.input_shape = input_shape,
                                          !.n_classes = n_classes],
                          n_layers, input_shape, n_classes)]
    /\ UNCHANGED <<groups, cls_model>>

\* o = Xception(input_shape, n_classes)
NewXception(o, input_shape, n_classes) ==
    /\ objs[o].cls = ""
    /\ objs' = [objs EXCEPT ![o] =
                 Xception_init([Unbound EXCEPT !.cls = "Xception",
                                               !.input_shape = input_shape,
                                               !.n_classes = n_classes],
                               input_shape, n_classes)]
    /\ UNCHANGED <<groups, cls_model>>

\* o.model = m, o a VGG instance
SetVGGModel(o, m) ==
    /\ objs[o].cls = "VGG"
    /\ objs[o].exc = ""
    /\ objs' = [objs EXCEPT ![o] =
                 [VGG_model_setter(objs[o], m) EXCEPT !.assigned = m]]
    /\ UNCHANGED <<groups, cls_model>>

\* o.model = m, o an Xception instance
SetXceptionModel(o, m) ==
    /\ objs[o].cls = "Xception"
    /\ objs[o].exc = ""
    /\ objs' = [objs EXCEPT ![o] =
                 [Xception_model_setter(objs[o], m) EXCEPT !.assigned = m]]
    /\ UNCHANGED <<groups, cls_model>>

\* o = Xception.entryFlow(Input(shape), blocks)
CallEntryFlow(o, shape, blocks) ==
    /\ objs[o].cls = ""
    /\ LET inputs == Input(NoGraph, shape)
       IN objs' = [objs EXCEPT ![o] =
                    Called("entryFlow", shape, 0, blocks,
                           entryFlow(inputs, inputs.x, blocks))]
    /\ UNCHANGED <<groups, cls_model>>

\* o = Xception.middleFlow(Input(shape), blocks)
CallMiddleFlow(o, shape, blocks) ==
    /\ objs[o].cls = ""
    /\ LET x == Input(NoGraph, shape)
       IN objs' = [objs EXCEPT ![o] =
                    Called("middleFlow", shape, 0, blocks,
                           middleFlow(x, x.x, blocks))]
    /\ UNCHANGED <<groups, cls_model>>

\* o = Xception.exitFlow(Input(shape), n_classes)
CallExitFlow(o, shape, n_classes) ==
    /\ objs[o].cls = ""
    /\ LET x == Input(NoGraph, shape)
       IN objs' = [objs EXCEPT ![o] =
                    Called("exitFlow", shape, n_classes, <<>>,
                           exitFlow(x, x.x, n_classes))]
    /\ UNCHANGED <<groups, cls_model>>

Next ==
    \/ \E o \in Objs, n \in Selectors, s \in VGGShapes, c \in ClassCounts :
          NewVGG(o, n, s, c)
    \/ \E o \in Objs, s \in XceptionShapes, c \in ClassCounts :
          NewXception(o, s, c)
    \/ \E o \in Objs, m \in OtherModels : SetVGGModel(o, m)
    \/ \E o \in Objs, m \in OtherModels : SetXceptionModel(o, m)
    \/ \E o \in Objs, s \in EntryShapes, b \in WidthLists : CallEntryFlow(o, s, b)
    \/ \E o \in Objs, s \in MiddleShapes, b \in WidthLists : CallMiddleFlow(o, s, b)
    \/ \E o \in Objs, s \in ExitShapes, c \in ClassCounts : CallExitFlow(o, s, c)

Spec == Init /\ [][Next]_vars

\* ------------------------------------------------------ reading the graphs
Bound(c) == {o \in Objs : objs[o].cls = c}
\* Builder instances whose constructor returned.
Built(c) == {o \in Bound(c) : objs[o].exc = ""}

Indices(nodes, kind) == {i \in 1..Len(nodes) : nodes[i].kind = kind}
Count(nodes, kind) == Cardinality(Indices(nodes, kind))
Last(nodes) == nodes[Len(nodes)]
Spatial(shape) == Len(shape) = 3 /\ shape[1] >= 1 /\ shape[2] >= 1

\* The (repeat, width) stages read off a VGG graph from node i on: the
\* convolutions counted up to each pool; width -1 when a stage mixes widths.
RECURSIVE StagesFrom(_, _, _, _, _)
StagesFrom(nodes, i, n, w, acc) ==
    IF i > Len(nodes) THEN acc
    ELSE IF nodes[i].kind = "Conv2D"
    THEN StagesFrom(nodes, i + 1, n + 1,
                    IF n = 0 \/ w = nodes[i].filters THEN nodes[i].filters ELSE -1, acc)
    ELSE IF nodes[i].kind = "MaxPooling2D"
    THEN StagesFrom(nodes, i + 1, 0, 0, Append(acc, <<n, w>>))
    ELSE acc

\* Node 1 is the input and node 2 the stem; the learner starts at node 3.
Stages(nodes) == StagesFrom(nodes, 3, 0, 0, <<>>)

RECURSIVE SumRepeats(_)
SumRepeats(stages) ==
    IF Len(stages) = 0 THEN 0 ELSE Head(stages)[1] + SumRepeats(Tail(stages))

\* The stages of configurations D and E of the VGG paper, after the stem.
PaperStages ==
    [n \in {16, 19} |->
        IF n = 16 THEN << <<1, 64>>, <<2, 128>>, <<3, 256>>, <<3, 512>>, <<3, 512>> >>
        ELSE << <<1, 64>>, <<2, 128>>, <<4, 256>>, <<4, 512>>, <<4, 512>> >>]

\* ------------------------------------------------------------------ claims

\* C1: a VGG constructed with a selector other than 16 or 19 raises the
\* invalid-configuration error with no layer created (not even the input) and
\* with its model unset.
C1_InvalidSelectorFailsFirst ==
    \A o \in Bound("VGG") :
        objs[o].n_layers \notin {16, 19} =>
            /\ objs[o].exc = InvalidLayers
            /\ objs[o].nodes = <<>>
            /\ ~objs[o].has_model
            /\ GetModel(objs[o]) = None

C1_Witness ==
    \E o \in Bound("VGG") : objs[o].n_layers = 11 /\ objs[o].exc = InvalidLayers

\* C2: for both builders, reading the model property returns the last value
\* assigned to it, and the model the constructor built when none was assigned.
C2_ModelReadsBackAssigned ==
    \A o \in Built("VGG") \cup Built("Xception") :
        GetModel(objs[o]) = IF objs[o].assigned = None
                            THEN Model(1, Len(objs[o].nodes))
                            ELSE objs[o].assigned

\* C3: a VGG built for variant 16 or 19 has a 64-wide stem followed by the
\* five (repeat, width) stages of the paper for that variant.
C3_StagesAreThePapers ==
    \A o \in Built("VGG") :
        /\ objs[o].nodes[2].kind = "Conv2D"
        /\ objs[o].nodes[2].filters = 64
        /\ Stages(objs[o].nodes) = PaperStages[objs[o].n_layers]

\* C7: the model a VGG builds ends in flatten, two dense layers of width 4096
\* and a softmax dense layer as wide as the requested class count, which is
\* the model's output.
C7_ClassifierTail ==
    \A o \in Built("VGG") :
        LET nodes == objs[o].nodes
            k == Len(nodes)
        IN /\ k >= 5
           /\ nodes[k - 3].kind = "Flatten"
           /\ nodes[k - 4].kind = "MaxPooling2D"
           /\ \A i \in {k - 2, k - 1} :
                 /\ nodes[i].kind = "Dense"
                 /\ nodes[i].filters = 4096
                 /\ nodes[i].inputs = <<i - 1>>
           /\ nodes[k].kind = "Dense"
           /\ nodes[k].filters = objs[o].n_classes
           /\ nodes[k].activation = "softmax"
           /\ nodes[k].inputs = <<k - 1>>
           /\ Count(nodes, "Dense") = 3
           /\ Count(nodes, "Flatten") = 1
           /\ objs[o].assigned = None => GetModel(objs[o]) = Model(1, k)
           /\ nodes[k].shape = <<objs[o].n_classes>>

C7_Witness ==
    \E o \in Built("VGG") :
        /\ objs[o].n_classes = 10
        /\ objs[o].assigned = None
        /\ Last(objs[o].nodes).shape = <<10>>

\* C10: the learner of a built VGG holds the stages of the selected variant in
\* table order, each `repeat` same-padded stride-1 3x3 convolutions of the
\* stage's width and then one 2x2 stride-2 pool; so it has one pool per stage,
\* as many convolutions as the repeats add up to, and with the stem and the
\* three dense layers as many weight layers as the selector says.
C10_LearnerFollowsTable ==
    \A o \in Built("VGG") :
        LET nodes == objs[o].nodes
            table == groups[objs[o].n_layers]
        IN /\ Stages(nodes) = table
           /\ \A i \in Indices(nodes, "Conv2D") :
                 /\ nodes[i].kernel = 3
                 /\ nodes[i].strides = 1
                 /\ nodes[i].padding = "same"
                 /\ nodes[i].inputs = <<i - 1>>
           /\ \A i \in Indices(nodes, "MaxPooling2D") :
                 /\ nodes[i].kernel = 2
                 /\ nodes[i].strides = 2
                 /\ nodes[i].inputs = <<i - 1>>
           /\ Count(nodes, "MaxPooling2D") = Len(table)
           /\ Count(nodes, "Conv2D") = 1 + SumRepeats(table)
           /\ Count(nodes, "Conv2D") + Count(nodes, "Dense") = objs[o].n_layers

C10_Witness ==
    \E o \in Built("VGG") :
        /\ objs[o].n_layers = 19
        /\ Count(objs[o].nodes, "Conv2D") = 16
        /\ Count(objs[o].nodes, "MaxPooling2D") = 5

\* The tensor a residual block forks from, given its merge at node a: the
\* shortcut itself, or what its normalised projection was applied to.
BlockInput(nodes, a) ==
    LET s == nodes[a].inputs[2]
    IN IF nodes[s].kind = "BatchNormalization"
       THEN nodes[nodes[s].inputs[1]].inputs[1]
       ELSE s

\* The nodes on the way from tensor t (excluded) to node k, following each
\* node's first input.
RECURSIVE Path(_, _, _)
Path(nodes, t, k) ==
    IF k <= t \/ Len(nodes[k].inputs) = 0 THEN <<>>
    ELSE Append(Path(nodes, t, nodes[k].inputs[1]), k)

Kinds(nodes, path) == [i \in 1..Len(path) |-> nodes[path[i]].kind]
Filters(nodes, path, kind) ==
    LET sel == SelectSeq(path, LAMBDA k : nodes[k].kind = kind)
    IN [i \in 1..Len(sel) |-> nodes[sel[i]].filters]

\* The merges of a graph in construction order, the rejected one left out.
Merges(nodes) ==
    SelectSeq([i \in 1..Len(nodes) |-> i],
              LAMBDA i : nodes[i].kind = "Add" /\ nodes[i].shape # <<>>)

SepUnit == <<"SeparableConv2D", "BatchNormalization", "ReLU">>

\* What kind of block ends in the merge at node a, and how wide it is.
Block(nodes, a) ==
    LET t    == BlockInput(nodes, a)
        main == Path(nodes, t, nodes[a].inputs[1])
        side == Path(nodes, t, nodes[a].inputs[2])
        seps == Filters(nodes, main, "SeparableConv2D")
    IN IF /\ Kinds(nodes, main) = SepUnit \o SepUnit \o <<"MaxPooling2D">>
          /\ Kinds(nodes, side) = <<"Conv2D", "BatchNormalization">>
          /\ Len(main) + Len(side) + 1 = a - t
       THEN <<"projection", IF seps = <<seps[1], seps[1]>> THEN seps[1] ELSE -1>>
       ELSE IF /\ Kinds(nodes, main) = SepUnit \o SepUnit \o SepUnit
               /\ side = <<>>
               /\ Len(main) + 1 = a - t
       THEN <<"identity",
              IF seps = <<seps[1], seps[1], seps[1]>> THEN seps[1] ELSE -1>>
       ELSE <<"other", 0>>

Blocks(nodes) ==
    LET m == Merges(nodes) IN [i \in 1..Len(m) |-> Block(nodes, m[i])]

Expect(kind, widths) == [i \in 1..Len(widths) |-> <<kind, widths[i]>>]

StemKinds ==
    <<"Conv2D", "BatchNormalization", "ReLU", "Conv2D", "BatchNormalization", "ReLU">>

\* The stem of an Xception graph got through: nodes 2..7 exist with a shape.
StemDone(nodes) == Len(nodes) >= 7 /\ nodes[7].shape # <<>>

\* The exit flow of a finished graph read off its last merge.
ExitMain(nodes) ==
    LET m == Merges(nodes)
        a == m[Len(m)]
    IN Path(nodes, BlockInput(nodes, a), nodes[a].inputs[1])
ExitSide(nodes) ==
    LET m == Merges(nodes)
        a == m[Len(m)]
    IN Path(nodes, BlockInput(nodes, a), nodes[a].inputs[2])
ExitTail(nodes) ==
    LET m == Merges(nodes)
    IN [i \in 1..(Len(nodes) - m[Len(m)]) |-> m[Len(m)] + i]

\* Graphs that hold a finished exit flow: a direct call, or a built Xception.
WithExit == Built("exitFlow") \cup Built("Xception")

ExitShortcutAndTail(nodes) ==
    /\ Kinds(nodes, ExitSide(nodes)) = <<"Conv2D", "BatchNormalization">>
    /\ nodes[ExitSide(nodes)[1]].strides = 2
    /\ nodes[ExitSide(nodes)[1]].kernel = 1
    /\ Kinds(nodes, ExitTail(nodes)) =
          SepUnit \o SepUnit \o <<"GlobalAveragePooling2D", "Dense">>
    /\ \A i \in 1..Len(ExitTail(nodes)) :
          nodes[ExitTail(nodes)[i]].inputs = <<ExitTail(nodes)[i] - 1>>

\* C4 as stated: four separable convolutions on the main branch and one
\* strided projection on the shortcut ahead of the merge, then two more
\* separable convolutions, global average pooling and the classification layer.
C4_FourBeforeMerge ==
    \A o \in WithExit :
        /\ Len(Filters(objs[o].nodes, ExitMain(objs[o].nodes), "SeparableConv2D")) = 4
        /\ ExitShortcutAndTail(objs[o].nodes)

\* C4 amended: two separable convolutions (728 then 1024 wide) and a 3x3
\* stride-2 pool on the main branch and one strided projection on the
\* shortcut ahead of the merge, then two more separable convolutions (four in
\* all), global average pooling and the classification layer.
C4_TwoBeforeMerge ==
    \A o \in WithExit :
        LET nodes == objs[o].nodes
            main == ExitMain(nodes)
        IN /\ Filters(nodes, main, "SeparableConv2D") = <<728, 1024>>
           /\ Kinds(nodes, main) =
                 <<"SeparableConv2D", "BatchNormalization", "SeparableConv2D",
                   "BatchNormalization", "ReLU", "MaxPooling2D">>
           /\ nodes[main[Len(main)]].strides = 2
           /\ ExitShortcutAndTail(nodes)
           /\ Len(Filters(nodes, ExitTail(nodes), "SeparableConv2D")) = 2
           /\ Last(nodes).filters = objs[o].n_classes
           /\ Last(nodes).activation = "softmax"

C4_Witness ==
    /\ \E o \in Built("exitFlow") : Count(objs[o].nodes, "SeparableConv2D") = 4
    /\ \E o \in Built("Xception") : Count(objs[o].nodes, "Add") = 12

\* C5: whenever the stem of an Xception constructor call comes out with a
\* positive size, the call goes through all twelve merges (3 projection, 8
\* identity, 1 exit) and at each the main branch and the shortcut have the
\* same height, width and channels.
C5_MergeShapesAgree ==
    \A o \in Bound("Xception") :
        LET nodes == objs[o].nodes
        IN StemDone(nodes) =>
              /\ Count(nodes, "Add") = 12
              /\ \A a \in Indices(nodes, "Add") :
                    /\ Spatial(nodes[nodes[a].inputs[1]].shape)
                    /\ nodes[nodes[a].inputs[1]].shape = nodes[nodes[a].inputs[2]].shape
                    /\ nodes[a].shape = nodes[nodes[a].inputs[1]].shape

\* An odd-by-even input whose blocks halve a size above 1.
C5_Witness ==
    \E o \in Built("Xception") :
        /\ objs[o].input_shape = <<11, 12, 3>>
        /\ objs[o].nodes[7].shape = <<3, 3, 64>>
        /\ Count(objs[o].nodes, "Add") = 12

\* What entryFlow builds for every width list: the stem once, then one
\* projection block per entry, in order and of that entry's width.
EntryPerEntry ==
    \A o \in Bound("entryFlow") :
        LET nodes == objs[o].nodes
        IN StemDone(nodes) =>
              /\ objs[o].exc = ""
              /\ Kinds(nodes, [i \in 1..6 |-> i + 1]) = StemKinds
              /\ Count(nodes, "Conv2D") = 2 + Len(objs[o].blocks)
              /\ Len(nodes) = 7 + 10 * Len(objs[o].blocks)
              /\ Blocks(nodes) = Expect("projection", objs[o].blocks)

\* The constructor's lists: 3 projection blocks, 8 identity blocks, the exit.
ConstructorBlocks ==
    \A o \in Built("Xception") :
        Blocks(objs[o].nodes) =
            Expect("projection", EntryWidths) \o Expect("identity", MiddleWidths)
                \o << <<"other", 0>> >>

C8_DefaultsBuild ==
    /\ \A o \in Bound("VGG") :
          (/\ objs[o].n_layers = 16
           /\ objs[o].input_shape = VGGDefaultShape
           /\ objs[o].n_classes = DefaultClasses) =>
             LET nodes == objs[o].nodes
                 pools == SelectSeq([i \in 1..Len(nodes) |-> i],
                                    LAMBDA i : nodes[i].kind = "MaxPooling2D")
             IN /\ objs[o].exc = ""
                /\ Last(nodes).shape = <<1000>>
                /\ \A i \in 1..(Len(nodes) - 4) : Spatial(nodes[i].shape)
                /\ [i \in 1..Len(pools) |-> nodes[pools[i]].shape[1]] =
                      <<112, 56, 28, 14, 7>>
                /\ \A i \in 1..Len(pools) : nodes[pools[i]].padding = "valid"
    /\ \A o \in Bound("Xception") :
          (/\ objs[o].input_shape = XceptionDefaultShape
           /\ objs[o].n_classes = DefaultClasses) =>
             LET nodes == objs[o].nodes
             IN /\ objs[o].exc = ""
                /\ Last(nodes).shape = <<1000>>
                /\ Last(nodes).kind = "Dense"
                /\ \A i \in 1..(Len(nodes) - 2) : Spatial(nodes[i].shape)

C8_Witness ==
    /\ \E o \in Built("VGG") :
          /\ objs[o].n_layers = 16
          /\ objs[o].input_shape = VGGDefaultShape
          /\ objs[o].n_classes = DefaultClasses
    /\ \E o \in Built("Xception") :
          /\ objs[o].input_shape = XceptionDefaultShape
          /\ objs[o].n_classes = DefaultClasses

SameArgs(p, q) ==
    /\ p.cls = q.cls
    /\ p.n_layers = q.n_layers
    /\ p.input_shape = q.input_shape
    /\ p.n_classes = q.n_classes

\* C9: two constructions of one builder with the same arguments create the
\* same layers with the same shapes; a step on one instance changes nothing of
\* the other, neither what its model property reads; and the class-level
\* stage table and the class-level unset model stay as they were.
C9_SameGraphIndependentInstances ==
    /\ [](\A p, q \in Bound("VGG") \cup Bound("Xception") :
            SameArgs(objs[p], objs[q]) =>
               /\ objs[p].nodes = objs[q].nodes
               /\ objs[p].exc = objs[q].exc)
    /\ [](groups = VGG_groups /\ \A c \in DOMAIN cls_model : cls_model[c] = None)
    /\ [][\A p \in Objs, q \in Bound("VGG") \cup Bound("Xception") :
            (p # q /\ objs'[p] # objs[p]) =>
               /\ objs'[q] = objs[q]
               /\ GetModel(objs[q])' = GetModel(objs[q])]_vars

C9_Witness ==
    \E p, q \in Built("VGG") :
        /\ p # q
        /\ SameArgs(objs[p], objs[q])
        /\ objs[p].assigned # None
        /\ objs[q].assigned = None
        /\ GetModel(objs[q]) = Model(1, Len(objs[q].nodes))

====
